---- MODULE Spec2Model ----
(***************************************************************************)
(* paul-scrape-rs: the crawl engine of src/main.rs (work queue, scheduler  *)
(* loop, task handlers, snapshot) and the canonicalization pass of         *)
(* src/bin/convertjson.rs.                                                 *)
(***************************************************************************)
EXTENDS Integers, Sequences, FiniteSets, Bags, TLC

(***************************************************************************)
(* Bounds of the model.                                                    *)
(***************************************************************************)
\* links the tree pages and course pages of the site hold in total (the link
\* graph is finite); no page lists more links than that
MaxLinks == 3
\* push_back calls of the queue test
MaxPushes == 3
\* raw courses and small groups of a snapshot given to convertjson
MaxCourses == 3
MaxGroups == 2

\* the debug limit of main.rs:264, branches.into_iter().take(2)
BranchTake == 2

\* Option<T>: None is the empty sequence, Some(x) the sequence of x alone
None == <<>>
Some(x) == <<x>>

\* the url field of QueueEntry::Main, which carries none
NoUrl == "-"

Urls == <<"u1", "u2">>
\* state.semester, the configured target semester (main.rs:20)
TargetSemester == "S1"

Min(a, b) == IF a < b THEN a ELSE b
Max(a, b) == IF a > b THEN a ELSE b

Range(s) == {s[i] : i \in DOMAIN s}

\* the first n elements of a sequence: Iterator::take(n)
Take(s, n) == SubSeq(s, 1, Min(n, Len(s)))

\* F of value, with value evaluated once: let v = value; F(v)
With(value, F(_)) == CHOOSE r \in {F(v) : v \in {value}} : TRUE

VARIABLES
  queue,          \* State.queue: the Queue struct (entries and the two bars)
  running_tasks,  \* State.running_tasks
  courses,        \* State.courses
  small_groups,   \* State.small_groups
  tasks,          \* the handlers spawned by the event loop (a bag of tasks)
  sched_pc,       \* position of the event loop
  main_pc,        \* position of main
  state_json,     \* the snapshot main builds and writes to state.json
  site_links,     \* links handed out by the site so far
  pushed,         \* queue test: the entries given to push_back, in order
  popped,         \* queue test: the results of the pops, in order
  test_pc,        \* queue test: "off", "push" or "pop"
  time_case,      \* convert_time test: the date and time given to it
  time_pc,        \* convert_time test: "off", "call", "returned", "panicked"
  time_out,       \* convert_time test: the String returned
  snapshot,       \* convertjson: the StateSerializable read from state.json
  canon_pc,       \* convertjson: position of its main
  courses_set,    \* convertjson: the HashSet courses, what is left to iterate
  courses_hashmap,\* convertjson: courses_hashmap
  semester_json   \* convertjson: the document written to semester.json

crawl_vars == <<running_tasks, courses, small_groups, tasks, sched_pc,
                main_pc, state_json, site_links>>

time_vars == <<time_case, time_pc, time_out>>

test_vars == <<pushed, popped, test_pc, time_vars>>

canon_vars == <<snapshot, canon_pc, courses_set, courses_hashmap,
                semester_json>>

vars == <<queue, crawl_vars, test_vars, canon_vars>>

(***************************************************************************)
(* Path (lib.rs).  A fragment is the sequence of its lines.                *)
(***************************************************************************)
Path_new == <<>>

Path_push(path, fragment) == Append(path, fragment)

(***************************************************************************)
(* QueueEntry and Queue (main.rs).                                         *)
(***************************************************************************)
QueueEntry(kind, url, path) == [kind |-> kind, url |-> url, path |-> path]

EntryMain == QueueEntry("Main", NoUrl, Path_new)

is_leaf(entry) == entry.kind \in {"CourseLeaf", "SmallGroupLeaf"}

Queue_new ==
  [queue |-> <<>>,
   tree_bar |-> [len |-> 0, pos |-> 0],
   leaf_bar |-> [len |-> 0, pos |-> 0]]

\* a push_back that counts every entry on the tree bar
push_back_on_tree_bar(q, entry) ==
  [q EXCEPT !.tree_bar.len = @ + 1, !.queue = Append(@, entry)]

\* Queue::push_back: count the entry on its bar, append it to the deque
push_back(q, entry) ==
  IF is_leaf(entry)
    THEN [q EXCEPT !.leaf_bar.len = @ + 1, !.queue = Append(@, entry)]
    ELSE [q EXCEPT !.tree_bar.len = @ + 1, !.queue = Append(@, entry)]

\* a removal that drops the front element whatever the index
swap_remove_front_drops_front(s, idx) == Tail(s)

\* VecDeque::swap_remove_front(idx): the element at idx is replaced by the
\* front element and the front is removed (idx is 1-based here)
swap_remove_front(s, idx) == Tail([s EXCEPT ![idx] = s[1]])

\* a pop that hands the entry out and leaves it in the queue
pop_leaving_entry(q, idx) ==
  IF Len(q.queue) = 0
    THEN [entry |-> None, q |-> q]
    ELSE [entry |-> Some(q.queue[idx]), q |-> q]

\* Queue::pop with the random index idx drawn from 0..len (1-based here);
\* on the empty queue: None and the queue as it was
pop(q, idx) ==
  IF Len(q.queue) = 0
    THEN [entry |-> None, q |-> q]
    ELSE LET front == q.queue[idx]
             rest  == swap_remove_front(q.queue, idx)
         IN  IF is_leaf(front)
               THEN [entry |-> Some(front),
                     q |-> [q EXCEPT !.queue = rest, !.leaf_bar.pos = @ + 1]]
               ELSE [entry |-> Some(front),
                     q |-> [q EXCEPT !.queue = rest, !.tree_bar.pos = @ + 1]]

RECURSIVE push_all(_, _)
\* a for loop of push_back calls under one lock of the queue
push_all(q, entries) ==
  IF entries = <<>> THEN q
  ELSE push_all(push_back(q, Head(entries)), Tail(entries))

(***************************************************************************)
(* What the site answers: the results of the extractors of lib.rs.  A link *)
(* is a url with the Path the extractor pairs it with.                     *)
(***************************************************************************)
UrlAt(i) == Urls[((i - 1) % Len(Urls)) + 1]

Link(url, path) == [url |-> url, path |-> path]

\* get_semesters: a list of (title, url) pairs, here a main page without
\* the target semester and one with it
SemesterLists ==
  {<<[label |-> "S2", url |-> Urls[1]]>>,
   <<[label |-> "S2", url |-> Urls[1]], [label |-> "S1", url |-> Urls[2]]>>}

\* parse_courses_and_branches: b branch links and c course links, each with
\* the path extended by the link text
parse_courses_and_branches(b, c, path) ==
  [courses  |-> [i \in 1..c |-> Link(UrlAt(i), Path_push(path, <<UrlAt(i)>>))],
   branches |-> [i \in 1..b |-> Link(UrlAt(i), Path_push(path, <<UrlAt(i)>>))]]

\* what a course page shows: the h1 title (its lines), span#dozenten,
\* span[name=courseOrgUnit], the appointments table, and whether the rows of
\* its Kleingruppe(n) table all link to one small group or to one each
CoursePageContents ==
  {[title |-> <<"C1", "T1">>, instructors |-> "I1", ou |-> Some("OU"),
    appointments |-> <<>>, one_group |-> r] : r \in BOOLEAN}

\* the href of the i-th link of the Kleingruppe(n) table
group_href(content, i) == IF content.one_group THEN UrlAt(1) ELSE UrlAt(i)

\* parse_course_page: the Course and its s small-group links, which carry
\* the path of the course leaf
parse_course_page(content, s, path) ==
  LET small_group_list == [i \in 1..s |-> Link(group_href(content, i), path)]
  IN  [course |-> [path |-> Path_push(path, content.title),
                   instructors |-> content.instructors,
                   ou |-> content.ou,
                   appointments |-> content.appointments,
                   small_groups |-> [i \in 1..s |-> small_group_list[i].url]],
       small_groups_links |-> small_group_list]

\* the label in front of the name of a small group, with its no-break space
GroupLabel == "Kleingruppe: "

\* a row of an appointments table as extract_appointments gives it: the
\* date split at its spaces, each token the sequence of its characters
RawAppointment ==
  [start_time |-> <<<<<<"M", "o">>, <<"0", "2", ".">>, <<"O", "k", "t", ".">>,
                      <<"2", "0", "2", "3">>>>, "08:00">>,
   end_time   |-> <<<<<<"M", "o">>, <<"0", "2", ".">>, <<"O", "k", "t", ".">>,
                      <<"2", "0", "2", "3">>>>, "24:00">>,
   room |-> "R1", instructors |-> "I1"]

\* what the small-group page at url shows: its h2 title and its appointments
\* table
SmallGroupPage(url) ==
  [title |-> GroupLabel \o (IF url = Urls[1] THEN "G1" ELSE "G2"),
   appointments |-> IF url = Urls[1] THEN <<RawAppointment>> ELSE <<>>]

\* parse_small_group: the SmallGroup of the page at url
parse_small_group(url, path) ==
  [url |-> url, path |-> Path_push(path, <<SmallGroupPage(url).title>>),
   appointments |-> SmallGroupPage(url).appointments]

(***************************************************************************)
(* handle_entry (main.rs:228-321).  A task is at one of                    *)
(*   start     spawned, nothing executed                                   *)
(*   fetch     counter incremented, waiting for the page                   *)
(*   push      page extracted, about to lock the queue                     *)
(*   append    about to lock courses / small_groups                        *)
(*   dec       about to decrement the counter                              *)
(*   done      returned                                                    *)
(*   panicked  unwound by a failed unwrap/expect                           *)
(* response is what send().await gave the handler: nothing yet, an Err     *)
(* ("error"), or a Response with a 2xx or another status.  The code never  *)
(* looks at the status.  Failed requests are told apart for the requests   *)
(* of get_semesters; all other requests are written the same way.          *)
(***************************************************************************)
NewTask(entry) ==
  [entry |-> entry, pc |-> "start", response |-> None,
   semesters |-> <<>>, branches |-> <<>>, leaves |-> <<>>,
   record |-> None, pushed |-> FALSE, appended |-> FALSE, enq |-> <<>>]

\* where a handler continues once its page is fetched and extracted
AfterFetch(kind) == IF kind = "SmallGroupLeaf" THEN "append" ELSE "push"

\* a handler that skips the append of its record
AfterPush_no_append(kind) == "dec"

\* where a handler continues once it has released the queue lock
AfterPush(kind) == IF kind = "CourseLeaf" THEN "append" ELSE "dec"

\* a filter that lets every semester through
matching_semesters_unfiltered(semesters) ==
  [i \in DOMAIN semesters |->
     QueueEntry("Tree", semesters[i].url,
                Path_push(Path_new, <<semesters[i].label>>))]

RECURSIVE matching_semesters(_)
\* main.rs:240-245: the loop over the semesters, skipping the other labels
matching_semesters(semesters) ==
  IF semesters = <<>> THEN <<>>
  ELSE LET s == Head(semesters)
       IN  IF s.label # TargetSemester
             THEN matching_semesters(Tail(semesters))
             ELSE <<QueueEntry("Tree", s.url, Path_push(Path_new, <<s.label>>))>>
                    \o matching_semesters(Tail(semesters))

\* the branches a Tree handler enqueues (main.rs:264)
taken_branches(branches) == Take(branches, BranchTake)

\* the entries a handler pushes while it holds the queue lock
entries_to_push(task) ==
  CASE task.entry.kind = "Main" -> matching_semesters(task.semesters)
    [] task.entry.kind = "Tree" ->
         [i \in 1..Len(taken_branches(task.branches)) |->
            QueueEntry("Tree", task.branches[i].url, task.branches[i].path)]
         \o [i \in 1..Len(task.leaves) |->
            QueueEntry("CourseLeaf", task.leaves[i].url, task.leaves[i].path)]
    [] task.entry.kind = "CourseLeaf" ->
         [i \in 1..Len(task.leaves) |->
            QueueEntry("SmallGroupLeaf", task.leaves[i].url, task.leaves[i].path)]
    [] OTHER -> <<>>

InitCrawl ==
  /\ queue = Queue_new
  /\ running_tasks = 0
  /\ courses = <<>>
  /\ small_groups = <<>>
  /\ tasks = EmptyBag
  /\ sched_pc = "tick"
  /\ main_pc = "push_main"
  /\ state_json = [courses |-> None, small_groups |-> None, written |-> FALSE]
  /\ site_links = 0

\* the process runs: when main returns (main.rs:226) the tokio runtime is
\* dropped and with it every task still spawned
Alive == main_pc # "written"

(***************************************************************************)
(* The four tokio Mutexes of State: "queue", "courses", "small_groups" and *)
(* "running_tasks".  A step that locks one waits until it is free.         *)
(***************************************************************************)
\* a handler that keeps the queue locked while it fetches
handler_holds_queue_in_fetch(pc) == IF pc = "fetch" THEN {"queue"} ELSE {}

\* the locks a handler holds between two of its steps: handle_entry takes
\* each lock in a block of its own and awaits nothing inside the block
handler_holds(pc) == {}

\* the lock the next step of a handler takes
handler_awaits(t) ==
  CASE t.pc \in {"start", "dec"} -> {"running_tasks"}
    [] t.pc = "push" -> {"queue"}
    [] t.pc = "append" ->
         IF t.entry.kind = "CourseLeaf" THEN {"courses"} ELSE {"small_groups"}
    [] OTHER -> {}

\* the event loop drops each guard at the end of the block that took it
sched_holds == {}

sched_awaits ==
  CASE sched_pc \in {"tick", "finish"} -> {"queue"}
    [] sched_pc = "check" -> {"running_tasks"}
    [] OTHER -> {}

\* main.rs:220-225: the guard of courses is a temporary of the statement
\* that builds the StateSerializable, so it lives until small_groups is
\* locked and cloned too
main_holds == IF main_pc = "snap_small_groups" THEN {"courses"} ELSE {}

main_awaits ==
  CASE main_pc = "push_main" -> {"queue"}
    [] main_pc = "join" /\ sched_pc = "done" -> {"courses"}
    [] main_pc = "snap_small_groups" -> {"small_groups"}
    [] OTHER -> {}

\* no task holds the lock
LockFree(lock) ==
  /\ lock \notin main_holds \cup sched_holds
  /\ \A t \in BagToSet(tasks) : lock \notin handler_holds(t.pc)

\* the tasks with task t advanced to t2
Step(t, t2) == (tasks (-) SetToBag({t})) (+) SetToBag({t2})

\* main.rs:229-232
HandlerStart(t) ==
  /\ Alive
  /\ t.pc = "start"
  /\ LockFree("running_tasks")
  /\ running_tasks' = running_tasks + 1
  /\ tasks' = Step(t, [t EXCEPT !.pc = "fetch"])
  /\ UNCHANGED <<test_vars, canon_vars>>
  /\ UNCHANGED <<queue, courses, small_groups, sched_pc, main_pc, state_json,
                 site_links>>

\* lib.rs:48-54: a request of get_semesters meets a transport error and
\* send().await.unwrap() panics; the task unwinds, nothing is retried
FetchError(t) ==
  /\ Alive
  /\ t.pc = "fetch"
  /\ t.entry.kind = "Main"
  /\ tasks' = Step(t, [t EXCEPT !.response = Some("error"),
                                !.pc = "panicked"])
  /\ UNCHANGED <<test_vars, canon_vars>>
  /\ UNCHANGED <<queue, running_tasks, courses, small_groups, sched_pc,
                 main_pc, state_json, site_links>>

\* lib.rs:48-55, 81-93: a request of get_semesters is answered with an error
\* status; send() is Ok, the body of the error page is handed to
\* get_redirect1, which finds no meta refresh and panics at its unwrap
FetchErrorStatus(t) ==
  /\ Alive
  /\ t.pc = "fetch"
  /\ t.entry.kind = "Main"
  /\ tasks' = Step(t, [t EXCEPT !.response = Some("non2xx"),
                                !.pc = "panicked"])
  /\ UNCHANGED <<test_vars, canon_vars>>
  /\ UNCHANGED <<queue, running_tasks, courses, small_groups, sched_pc,
                 main_pc, state_json, site_links>>

\* a 2xx response arrives and its body lacks an element the extractor
\* unwraps (lib.rs:88, 103, 253-256, 398-403): the task unwinds, nothing
\* else of it runs
HandlerPanic(t) ==
  /\ Alive
  /\ t.pc = "fetch"
  /\ tasks' = Step(t, [t EXCEPT !.response = Some("2xx"),
                                !.pc = "panicked"])
  /\ UNCHANGED <<test_vars, canon_vars>>
  /\ UNCHANGED <<queue, running_tasks, courses, small_groups, sched_pc,
                 main_pc, state_json, site_links>>

\* main.rs:236
FetchMain(t, semesters) ==
  /\ Alive
  /\ t.pc = "fetch"
  /\ t.entry.kind = "Main"
  /\ tasks' = Step(t, [t EXCEPT !.response = Some("2xx"),
                                !.semesters = semesters,
                                !.pc = AfterFetch("Main")])
  /\ UNCHANGED <<test_vars, canon_vars>>
  /\ UNCHANGED <<queue, running_tasks, courses, small_groups, sched_pc,
                 main_pc, state_json, site_links>>

\* main.rs:250-258
FetchTree(t, b, c) ==
  /\ Alive
  /\ t.pc = "fetch"
  /\ t.entry.kind = "Tree"
  /\ site_links + b + c <= MaxLinks
  /\ site_links' = site_links + b + c
  /\ LET r == parse_courses_and_branches(b, c, t.entry.path)
     IN  tasks' = Step(t, [t EXCEPT !.response = Some("2xx"),
                                    !.branches = r.branches,
                                    !.leaves = r.courses,
                                    !.pc = AfterFetch("Tree")])
  /\ UNCHANGED <<test_vars, canon_vars>>
  /\ UNCHANGED <<queue, running_tasks, courses, small_groups, sched_pc,
                 main_pc, state_json>>

\* main.rs:275-283
FetchCourseLeaf(t, content, s) ==
  /\ Alive
  /\ t.pc = "fetch"
  /\ t.entry.kind = "CourseLeaf"
  /\ site_links + s <= MaxLinks
  /\ site_links' = site_links + s
  /\ LET r == parse_course_page(content, s, t.entry.path)
     IN  tasks' = Step(t, [t EXCEPT !.response = Some("2xx"),
                                    !.leaves = r.small_groups_links,
                                    !.record = Some(r.course),
                                    !.pc = AfterFetch("CourseLeaf")])
  /\ UNCHANGED <<test_vars, canon_vars>>
  /\ UNCHANGED <<queue, running_tasks, courses, small_groups, sched_pc,
                 main_pc, state_json>>

\* main.rs:300-308
FetchSmallGroupLeaf(t) ==
  /\ Alive
  /\ t.pc = "fetch"
  /\ t.entry.kind = "SmallGroupLeaf"
  /\ tasks' = Step(t, [t EXCEPT
       !.response = Some("2xx"),
       !.record = Some(parse_small_group(t.entry.url, t.entry.path)),
       !.pc = AfterFetch("SmallGroupLeaf")])
  /\ UNCHANGED <<test_vars, canon_vars>>
  /\ UNCHANGED <<queue, running_tasks, courses, small_groups, sched_pc,
                 main_pc, state_json, site_links>>

\* main.rs:238-246, 259-271, 286-291: all pushes under one lock of the queue
HandlerPush(t) ==
  /\ Alive
  /\ t.pc = "push"
  /\ LockFree("queue")
  /\ LET entries == entries_to_push(t)
     IN  /\ queue' = push_all(queue, entries)
         /\ tasks' = Step(t, [t EXCEPT !.enq = entries,
                                       !.pushed = TRUE,
                                       !.pc = AfterPush(t.entry.kind)])
  /\ UNCHANGED <<test_vars, canon_vars>>
  /\ UNCHANGED <<running_tasks, courses, small_groups, sched_pc, main_pc,
                 state_json, site_links>>

\* main.rs:293-296, 311-314: the record moves into the Aggregator
HandlerAppend(t) ==
  /\ Alive
  /\ t.pc = "append"
  /\ \A lock \in handler_awaits(t) : LockFree(lock)
  /\ IF t.entry.kind = "CourseLeaf"
       THEN /\ courses' = courses \o t.record
            /\ UNCHANGED small_groups
       ELSE /\ small_groups' = small_groups \o t.record
            /\ UNCHANGED courses
  /\ tasks' = Step(t, [t EXCEPT !.record = None, !.appended = TRUE,
                                !.pc = "dec"])
  /\ UNCHANGED <<test_vars, canon_vars>>
  /\ UNCHANGED <<queue, running_tasks, sched_pc, main_pc, state_json,
                 site_links>>

\* a handler that returns without its decrement
HandlerDec_skipped(t) ==
  /\ Alive
  /\ t.pc = "dec"
  /\ tasks' = Step(t, [t EXCEPT !.pc = "done"])
  /\ UNCHANGED <<test_vars, canon_vars>>
  /\ UNCHANGED <<queue, running_tasks, courses, small_groups, sched_pc,
                 main_pc, state_json, site_links>>

\* main.rs:317-320
HandlerDec(t) ==
  /\ Alive
  /\ t.pc = "dec"
  /\ LockFree("running_tasks")
  /\ running_tasks' = running_tasks - 1
  /\ tasks' = Step(t, [t EXCEPT !.pc = "done"])
  /\ UNCHANGED <<test_vars, canon_vars>>
  /\ UNCHANGED <<queue, courses, small_groups, sched_pc, main_pc, state_json,
                 site_links>>

(***************************************************************************)
(* The event loop (main.rs:165-206).  It is at one of                      *)
(*   tick    asleep, or about to lock the queue and pop                    *)
(*   check   pop returned None, about to lock and read running_tasks       *)
(*   finish  left the loop (break), about to lock the queue for finish()   *)
(*   done    returned                                                      *)
(***************************************************************************)
\* main.rs:170-178, 198: pop at a random index; the entry popped is handed
\* to a new task
SchedPop ==
  /\ sched_pc = "tick"
  /\ LockFree("queue")
  /\ \E idx \in 1..Max(1, Len(queue.queue)) :
       LET r == pop(queue, idx)
       IN  /\ queue' = r.q
           /\ IF r.entry = None
                THEN /\ sched_pc' = "check"
                     /\ UNCHANGED tasks
                ELSE /\ sched_pc' = "tick"
                     /\ tasks' = tasks (+) SetToBag({NewTask(r.entry[1])})
  /\ UNCHANGED <<test_vars, canon_vars>>
  /\ UNCHANGED <<running_tasks, courses, small_groups, main_pc, state_json,
                 site_links>>

\* main.rs:184-194
SchedCheck ==
  /\ sched_pc = "check"
  /\ LockFree("running_tasks")
  /\ sched_pc' = IF running_tasks = 0 THEN "finish" ELSE "tick"
  /\ UNCHANGED <<test_vars, canon_vars>>
  /\ UNCHANGED <<queue, running_tasks, courses, small_groups, tasks, main_pc,
                 state_json, site_links>>

\* main.rs:201-204
SchedFinish ==
  /\ sched_pc = "finish"
  /\ LockFree("queue")
  /\ sched_pc' = "done"
  /\ UNCHANGED <<test_vars, canon_vars>>
  /\ UNCHANGED <<queue, running_tasks, courses, small_groups, tasks, main_pc,
                 state_json, site_links>>

(***************************************************************************)
(* main (main.rs:208-226).  It is at one of                                *)
(*   push_main           event loop spawned, about to push Main            *)
(*   join                waiting for the event loop                        *)
(*   snap_small_groups   courses cloned, about to clone small_groups       *)
(*   written             state.json written                                *)
(***************************************************************************)
\* main.rs:209-212
MainPush ==
  /\ main_pc = "push_main"
  /\ LockFree("queue")
  /\ queue' = push_back(queue, EntryMain)
  /\ main_pc' = "join"
  /\ UNCHANGED <<test_vars, canon_vars>>
  /\ UNCHANGED <<running_tasks, courses, small_groups, tasks, sched_pc,
                 state_json, site_links>>

\* main.rs:215, 222
MainSnapCourses ==
  /\ main_pc = "join"
  /\ sched_pc = "done"
  /\ LockFree("courses")
  /\ state_json' = [state_json EXCEPT !.courses = Some(courses)]
  /\ main_pc' = "snap_small_groups"
  /\ UNCHANGED <<test_vars, canon_vars>>
  /\ UNCHANGED <<queue, running_tasks, courses, small_groups, tasks, sched_pc,
                 site_links>>

\* main.rs:223-225: the snapshot is complete and written to state.json
MainSnapSmallGroups ==
  /\ main_pc = "snap_small_groups"
  /\ LockFree("small_groups")
  /\ state_json' = [state_json EXCEPT !.small_groups = Some(small_groups),
                                      !.written = TRUE]
  /\ main_pc' = "written"
  /\ UNCHANGED <<test_vars, canon_vars>>
  /\ UNCHANGED <<queue, running_tasks, courses, small_groups, tasks, sched_pc,
                 site_links>>

Next ==
  \/ \E t \in BagToSet(tasks) : HandlerStart(t)
  \/ \E t \in BagToSet(tasks) : FetchError(t)
  \/ \E t \in BagToSet(tasks) : FetchErrorStatus(t)
  \/ \E t \in BagToSet(tasks) : HandlerPanic(t)
  \/ \E t \in BagToSet(tasks), semesters \in SemesterLists :
       FetchMain(t, semesters)
  \/ \E t \in BagToSet(tasks), b \in 0..MaxLinks, c \in 0..MaxLinks :
       FetchTree(t, b, c)
  \/ \E t \in BagToSet(tasks), content \in CoursePageContents,
        s \in 0..MaxLinks : FetchCourseLeaf(t, content, s)
  \/ \E t \in BagToSet(tasks) : FetchSmallGroupLeaf(t)
  \/ \E t \in BagToSet(tasks) : HandlerPush(t)
  \/ \E t \in BagToSet(tasks) : HandlerAppend(t)
  \/ \E t \in BagToSet(tasks) : HandlerDec(t)
  \/ SchedPop
  \/ SchedCheck
  \/ SchedFinish
  \/ MainPush
  \/ MainSnapCourses
  \/ MainSnapSmallGroups

InitTimeOff == time_case = None /\ time_pc = "off" /\ time_out = None

InitTestOff ==
  pushed = <<>> /\ popped = <<>> /\ test_pc = "off" /\ InitTimeOff

\* convertjson is a separate process, not started
InitCanonOff ==
  /\ snapshot = None
  /\ canon_pc = "off"
  /\ courses_set = {}
  /\ courses_hashmap = <<>>
  /\ semester_json = None

Init == InitCrawl /\ InitTestOff /\ InitCanonOff

Spec == Init /\ [][Next]_vars

\* the steps of the event loop, of main and of the handlers: each is a tokio
\* task of its own, and the runtime keeps polling a task that can proceed
EventLoopStep == SchedPop \/ SchedCheck \/ SchedFinish

MainStep == MainPush \/ MainSnapCourses \/ MainSnapSmallGroups

HandlerStep(t) ==
  \/ HandlerStart(t)
  \/ FetchError(t)
  \/ FetchErrorStatus(t)
  \/ HandlerPanic(t)
  \/ \E semesters \in SemesterLists : FetchMain(t, semesters)
  \/ \E b \in 0..MaxLinks, c \in 0..MaxLinks : FetchTree(t, b, c)
  \/ \E content \in CoursePageContents, s \in 0..MaxLinks :
       FetchCourseLeaf(t, content, s)
  \/ FetchSmallGroupLeaf(t)
  \/ HandlerPush(t)
  \/ HandlerAppend(t)
  \/ HandlerDec(t)

HandlersStep == \E t \in BagToSet(tasks) : HandlerStep(t)

\* the crawl under fair scheduling of its tasks
FairSpec ==
  /\ Spec
  /\ WF_vars(EventLoopStep)
  /\ WF_vars(MainStep)
  /\ WF_vars(HandlersStep)

(***************************************************************************)
(* The Queue alone: N calls of push_back, then pops, each at an index the  *)
(* random generator may draw.                                              *)
(***************************************************************************)
TestEntries ==
  {EntryMain,
   QueueEntry("Tree", "u1", <<<<"S1">>>>),
   QueueEntry("CourseLeaf", "u1", <<<<"S1">>, <<"u1">>>>),
   QueueEntry("SmallGroupLeaf", "u2", <<<<"S1">>, <<"u1">>>>)}

InitQueueTest ==
  /\ InitCrawl
  /\ InitCanonOff
  /\ pushed = <<>>
  /\ popped = <<>>
  /\ test_pc = "push"
  /\ InitTimeOff

TestPush(entry) ==
  /\ test_pc = "push"
  /\ Len(pushed) < MaxPushes
  /\ queue' = push_back(queue, entry)
  /\ pushed' = Append(pushed, entry)
  /\ UNCHANGED <<popped, test_pc, time_vars, crawl_vars, canon_vars>>

\* one pop more than there were pushes is tried: it finds the queue empty
TestPop(idx) ==
  /\ test_pc \in {"push", "pop"}
  /\ Len(popped) <= Len(pushed)
  /\ idx \in 1..Max(1, Len(queue.queue))
  /\ LET r == pop(queue, idx)
     IN  /\ queue' = r.q
         /\ popped' = Append(popped, r.entry)
  /\ test_pc' = "pop"
  /\ UNCHANGED <<pushed, time_vars, crawl_vars, canon_vars>>

QueueTestNext ==
  \/ \E entry \in TestEntries : TestPush(entry)
  \/ \E idx \in 1..MaxPushes : TestPop(idx)

QueueTest == InitQueueTest /\ [][QueueTestNext]_vars

(***************************************************************************)
(* convertjson (src/bin/convertjson.rs).  A String is a TLA+ string; a     *)
(* String that the code splits is the sequence of its parts: a Path        *)
(* fragment is the sequence of its lines, a date is the sequence of its    *)
(* space-separated tokens, each token the sequence of its characters.  A   *)
(* conversion that can panic gives an Option: None is the panic.           *)
(***************************************************************************)
\* the strings the derived Ord can meet, in byte order
StrOrder ==
  <<"", "2023-10-02T08:00:00", "2023-10-02T23:59:00", "C1|6a", "C1|db",
    "G1", "G2", "I1", "OU", "R1", "T1", "T16", "T17">>

StrPos(str) == CHOOSE i \in DOMAIN StrOrder : StrOrder[i] = str

\* Ordering of two Strings: -1 Less, 0 Equal, 1 Greater
StrCmp(a, b) ==
  IF a = b THEN 0 ELSE IF StrPos(a) < StrPos(b) THEN -1 ELSE 1

\* Ordering::then: the first difference decides
Then(c1, c2) == With(c1, LAMBDA c : IF c # 0 THEN c ELSE c2)

\* Option<String>: None before Some
OptCmp(a, b) ==
  IF a = None THEN (IF b = None THEN 0 ELSE -1)
  ELSE IF b = None THEN 1 ELSE StrCmp(a[1], b[1])

\* derive(Ord) of PaulineAppointment: the fields in declaration order
AppointmentCmp(a, b) ==
  Then(StrCmp(a.start_time, b.start_time),
  Then(StrCmp(a.end_time, b.end_time),
  Then(StrCmp(a.room, b.room),
       StrCmp(a.instructors, b.instructors))))

RECURSIVE AppointmentsCmp(_, _)
\* Ord of Vec<PaulineAppointment>: lexicographic
AppointmentsCmp(a, b) ==
  IF a = <<>> THEN (IF b = <<>> THEN 0 ELSE -1)
  ELSE IF b = <<>> THEN 1
  ELSE Then(AppointmentCmp(Head(a), Head(b)),
            AppointmentsCmp(Tail(a), Tail(b)))

\* derive(Ord) of PaulineSmallGroup
SmallGroupCmp(a, b) ==
  Then(StrCmp(a.name, b.name), AppointmentsCmp(a.appointments, b.appointments))

RECURSIVE SmallGroupsCmp(_, _)
\* Ord of Vec<PaulineSmallGroup>: lexicographic
SmallGroupsCmp(a, b) ==
  IF a = <<>> THEN (IF b = <<>> THEN 0 ELSE -1)
  ELSE IF b = <<>> THEN 1
  ELSE Then(SmallGroupCmp(Head(a), Head(b)),
            SmallGroupsCmp(Tail(a), Tail(b)))

\* derive(Ord) of PaulineCourse: cid, name, description, ou, instructors,
\* small_groups, appointments
CourseCmp(a, b) ==
  Then(StrCmp(a.cid, b.cid),
  Then(StrCmp(a.name, b.name),
  Then(OptCmp(a.description, b.description),
  Then(OptCmp(a.ou, b.ou),
  Then(OptCmp(a.instructors, b.instructors),
  Then(SmallGroupsCmp(a.small_groups, b.small_groups),
       AppointmentsCmp(a.appointments, b.appointments)))))))

\* the sorted vec with c put behind the elements that are not greater
sort_insert(sorted, c) ==
  LET n == Cardinality({i \in DOMAIN sorted : CourseCmp(sorted[i], c) <= 0})
  IN  SubSeq(sorted, 1, n) \o <<c>> \o SubSeq(sorted, n + 1, Len(sorted))

RECURSIVE sort_from(_, _, _)
\* insertion sort: sorted holds the first n elements of vec in order
sort_from(sorted, vec, n) ==
  IF n = Len(vec) THEN sorted
  ELSE With(sort_insert(sorted, vec[n + 1]),
            LAMBDA next : sort_from(next, vec, n + 1))

\* a sort that was left out
sort_not_done(vec) == vec

\* vec.sort(): ascending in the derived order, stable
sort(vec) == With(vec, LAMBDA v : sort_from(<<>>, v, 0))

\* {:02}
Pad2(n) == IF n < 10 THEN "0" \o ToString(n) ELSE ToString(n)

DigitValue ==
  [c \in {"0", "1", "2", "3", "4", "5", "6", "7", "8", "9"} |->
     CASE c = "0" -> 0 [] c = "1" -> 1 [] c = "2" -> 2 [] c = "3" -> 3
       [] c = "4" -> 4 [] c = "5" -> 5 [] c = "6" -> 6 [] c = "7" -> 7
       [] c = "8" -> 8 [] c = "9" -> 9]

RECURSIVE digits_value(_, _)
\* the number the first n of the digits chars denote
digits_value(chars, n) ==
  IF n = 0 THEN 0
  ELSE 10 * digits_value(chars, n - 1) + DigitValue[chars[n]]

\* str::parse::<i32>() of a run of decimal digits; None is the Err
parse_i32(chars) ==
  IF chars # <<>> /\ \A i \in DOMAIN chars : chars[i] \in DOMAIN DigitValue
    THEN Some(digits_value(chars, Len(chars)))
    ELSE None

\* replace('.', "")
without_dots(chars) == SelectSeq(chars, LAMBDA c : c # ".")

\* a table without the spelling "Mär"
month_of_ascii(chars) ==
  CASE chars = <<"J", "a", "n">> -> Some(1)
    [] chars = <<"F", "e", "b">> -> Some(2)
    [] chars = <<"M", "r", "z">> -> Some(3)
    [] chars = <<"A", "p", "r">> -> Some(4)
    [] chars = <<"M", "a", "i">> -> Some(5)
    [] chars = <<"J", "u", "n">> -> Some(6)
    [] chars = <<"J", "u", "l">> -> Some(7)
    [] chars = <<"A", "u", "g">> -> Some(8)
    [] chars = <<"S", "e", "p">> -> Some(9)
    [] chars = <<"O", "k", "t">> -> Some(10)
    [] chars = <<"N", "o", "v">> -> Some(11)
    [] chars = <<"D", "e", "z">> -> Some(12)
    [] OTHER -> None

\* the match on the month abbreviation (convertjson.rs:187-202); None is
\* the panic of the last arm
month_of(chars) ==
  CASE chars = <<"J", "a", "n">> -> Some(1)
    [] chars = <<"F", "e", "b">> -> Some(2)
    [] chars = <<"M", "r", "z">> -> Some(3)
    [] chars = <<"M", "ä", "r">> -> Some(3)
    [] chars = <<"A", "p", "r">> -> Some(4)
    [] chars = <<"M", "a", "i">> -> Some(5)
    [] chars = <<"J", "u", "n">> -> Some(6)
    [] chars = <<"J", "u", "l">> -> Some(7)
    [] chars = <<"A", "u", "g">> -> Some(8)
    [] chars = <<"S", "e", "p">> -> Some(9)
    [] chars = <<"O", "k", "t">> -> Some(10)
    [] chars = <<"N", "o", "v">> -> Some(11)
    [] chars = <<"D", "e", "z">> -> Some(12)
    [] OTHER -> None

\* convert_time: split_date is the date split at its spaces
convert_time(split_date, time) ==
  IF Len(split_date) < 4 THEN None
  ELSE LET day   == parse_i32(without_dots(split_date[2]))
           month == month_of(without_dots(split_date[3]))
           year  == parse_i32(split_date[4])
           time2 == IF time = "24:00" THEN "23:59" ELSE time
       IN  With(<<day, month, year>>, LAMBDA dmy :
             IF dmy[1] = None \/ dmy[2] = None \/ dmy[3] = None THEN None
             ELSE Some(ToString(dmy[3][1]) \o "-" \o Pad2(dmy[2][1]) \o "-"
                         \o Pad2(dmy[1][1]) \o "T" \o time2 \o ":00"))

\* convert_appointment
convert_appointment(appointment) ==
  LET start == convert_time(appointment.start_time[1], appointment.start_time[2])
      end   == convert_time(appointment.end_time[1], appointment.end_time[2])
  IN  With(<<start, end>>, LAMBDA se :
        IF se[1] = None \/ se[2] = None THEN None
        ELSE Some([start_time |-> se[1][1], end_time |-> se[2][1],
                   room |-> appointment.room,
                   instructors |-> appointment.instructors]))

\* appointments.iter().map(convert_appointment).collect()
convert_appointments(appointments) ==
  With(<<[i \in DOMAIN appointments |-> convert_appointment(appointments[i])]>>,
       LAMBDA c :
         IF \E i \in DOMAIN c[1] : c[1][i] = None THEN None
         ELSE Some([i \in DOMAIN c[1] |-> c[1][i][1]]))

\* replace("Kleingruppe:\u{a0}", "") on the titles of small-group pages
without_label(str) ==
  CASE str = GroupLabel \o "G1" -> "G1"
    [] str = GroupLabel \o "G2" -> "G2"
    [] OTHER -> str

\* convert_small_group; the last fragment is the one line of the title
convert_small_group(sg) ==
  With(convert_appointments(sg.appointments), LAMBDA appointments :
    IF sg.path = <<>> \/ appointments = None THEN None
    ELSE Some([name |-> without_label(sg.path[Len(sg.path)][1]),
               appointments |-> appointments[1]]))

\* HashMap::insert: a later value for a key replaces the earlier one
hashmap_insert(map, key, value) ==
  [k \in DOMAIN map \cup {key} |-> IF k = key THEN value ELSE map[k]]

RECURSIVE index_small_groups(_, _)
\* convertjson.rs:55-59: collect the (url, converted group) pairs of the
\* first n small groups into a HashMap, in the order of the Vec
index_small_groups(sgs, n) ==
  IF n = 0 THEN Some(<<>>)
  ELSE With(<<index_small_groups(sgs, n - 1), convert_small_group(sgs[n])>>,
            LAMBDA mc :
              IF mc[1] = None \/ mc[2] = None THEN None
              ELSE Some(hashmap_insert(mc[1][1], sgs[n].url, mc[2][1])))

\* a lookup that leaves out the urls the index lacks
resolve_skipping(urls, index) ==
  Some([i \in 1..Len(SelectSeq(urls, LAMBDA u : u \in DOMAIN index)) |->
          index[SelectSeq(urls, LAMBDA u : u \in DOMAIN index)[i]]])

\* a lookup that hands the groups out last url first
resolve_reversed(urls, index) ==
  IF \E i \in DOMAIN urls : urls[i] \notin DOMAIN index THEN None
  ELSE Some([i \in DOMAIN urls |-> index[urls[Len(urls) + 1 - i]]])

\* convertjson.rs:71-75: small_groups.get(&sg).unwrap().clone() for each url
resolve(urls, index) ==
  IF \E i \in DOMAIN urls : urls[i] \notin DOMAIN index THEN None
  ELSE Some([i \in DOMAIN urls |-> index[urls[i]]])

\* the first two hex digits of SHA-256 of the bytes of str
Sha256Prefix(str) ==
  CASE str = "I1" -> "c2"
    [] str = "T1I1" -> "6a"
    [] str = "T16I1" -> "db"
    [] str = "T17I1" -> "db"

\* an index that gives the empty string for a line the fragment lacks
second_line_or_empty(cid_title) ==
  IF Len(cid_title) < 2 THEN Some("") ELSE Some(cid_title[2])

\* cid_title[1] (convertjson.rs:86): the second line of the fragment; None
\* is the panic of the index out of bounds
second_line(cid_title) ==
  IF Len(cid_title) < 2 THEN None ELSE Some(cid_title[2])

\* convertjson.rs:65-117: the PaulineCourse of one raw course
convert_course(course, index) ==
  With(<<convert_appointments(course.appointments),
         resolve(course.small_groups, index)>>,
       LAMBDA as :
         IF as[1] = None \/ as[2] = None \/ course.path = <<>> THEN None
         ELSE LET cid_title == course.path[Len(course.path)]
              IN  IF cid_title = <<>> \/ second_line(cid_title) = None THEN None
                  ELSE LET name == second_line(cid_title)[1]
                           name_hash == Sha256Prefix(name \o course.instructors)
                       IN  Some([cid |-> cid_title[1] \o "|" \o name_hash,
                                 name |-> name,
                                 description |-> Some(""),
                                 ou |-> course.ou,
                                 instructors |-> Some(course.instructors),
                                 small_groups |-> as[2][1],
                                 appointments |-> as[1][1]]))

\* convertjson.rs:55-118: the HashSet of converted courses, None when an
\* unwrap or an index panics on the way
convert_courses(state) ==
  With(index_small_groups(state.small_groups, Len(state.small_groups)),
       LAMBDA index :
         IF index = None THEN None
         ELSE With({convert_course(state.courses[i], index[1]) :
                      i \in DOMAIN state.courses},
                   LAMBDA converted :
                     IF None \in converted THEN None
                     ELSE Some({c[1] : c \in converted})))

\* ranks that go up only with every second member
ranked_cid_by_half(cid, i) == cid \o ":" \o ToString(i \div 2)

\* ranks that start at 1
ranked_cid_from_one(cid, i) == cid \o ":" \o ToString(i + 1)

\* format!("{}:{}", course.cid, i)
ranked_cid(cid, i) == cid \o ":" \o ToString(i)

\* convertjson.rs:122-143: one turn of the loop over the HashSet
insert_course(hashmap, course) ==
  IF course.cid \notin DOMAIN hashmap
    THEN hashmap_insert(hashmap, course.cid, <<course>>)
    ELSE LET vec   == Append(hashmap[course.cid], course)
             reset == [i \in DOMAIN vec |-> [vec[i] EXCEPT !.cid = course.cid]]
         IN  With(sort(reset), LAMBDA sorted :
               [hashmap EXCEPT ![course.cid] =
                  [i \in DOMAIN sorted |->
                     [sorted[i] EXCEPT !.cid = ranked_cid(course.cid, i - 1)]]])

\* a flattening that keeps the first member of each Vec only
flat_map_heads(hashmap, keys) ==
  [i \in DOMAIN keys |-> hashmap[keys[i]][1]]

RECURSIVE flat_map(_, _)
\* convertjson.rs:145-148: the Vecs of the map, in the order its keys come
flat_map(hashmap, keys) ==
  IF keys = <<>> THEN <<>>
  ELSE hashmap[Head(keys)] \o flat_map(hashmap, Tail(keys))

\* convertjson.rs:152-160
format_created(t) ==
  ToString(t.year) \o "-" \o Pad2(t.month) \o "-" \o Pad2(t.day) \o "T"
    \o Pad2(t.hour) \o ":" \o Pad2(t.minute) \o ":" \o Pad2(t.second)

(***************************************************************************)
(* convert_time alone, called on dates of the shape                        *)
(* "<weekday> <day>. <month-abbrev>. <year>" and times HH:MM.  A case      *)
(* carries, next to each token, the digits the token stands for.           *)
(***************************************************************************)
Weekdays == {<<"M", "o">>, <<"F", "r">>}

Days ==
  {[token |-> <<"0", "2", ".">>, digits |-> "02"],
   [token |-> <<"2", ".">>, digits |-> "02"],
   [token |-> <<"3", "1", ".">>, digits |-> "31"]}

Months ==
  {[token |-> <<"J", "a", "n", ".">>, digits |-> "01"],
   [token |-> <<"F", "e", "b", ".">>, digits |-> "02"],
   [token |-> <<"M", "r", "z", ".">>, digits |-> "03"],
   [token |-> <<"M", "ä", "r", ".">>, digits |-> "03"],
   [token |-> <<"A", "p", "r", ".">>, digits |-> "04"],
   [token |-> <<"M", "a", "i">>, digits |-> "05"],
   [token |-> <<"M", "a", "i", ".">>, digits |-> "05"],
   [token |-> <<"J", "u", "n", ".">>, digits |-> "06"],
   [token |-> <<"J", "u", "l", ".">>, digits |-> "07"],
   [token |-> <<"A", "u", "g", ".">>, digits |-> "08"],
   [token |-> <<"S", "e", "p", ".">>, digits |-> "09"],
   [token |-> <<"O", "k", "t", ".">>, digits |-> "10"],
   [token |-> <<"N", "o", "v", ".">>, digits |-> "11"],
   [token |-> <<"D", "e", "z", ".">>, digits |-> "12"]}

Years ==
  {[token |-> <<"2", "0", "2", "3">>, digits |-> "2023"],
   [token |-> <<"2", "0", "2", "4">>, digits |-> "2024"]}

Times == {"08:00", "23:59", "24:00"}

InitTimeTest ==
  /\ InitCrawl
  /\ InitCanonOff
  /\ pushed = <<>> /\ popped = <<>> /\ test_pc = "off"
  /\ \E weekday \in Weekdays, day \in Days, month \in Months, year \in Years,
        time \in Times :
       time_case = Some([weekday |-> weekday, day |-> day, month |-> month,
                         year |-> year, time |-> time])
  /\ time_pc = "call"
  /\ time_out = None

\* one call of convert_time on the date of the case, split at its spaces
TestConvertTime ==
  /\ time_pc = "call"
  /\ LET c == time_case[1]
         r == convert_time(<<c.weekday, c.day.token, c.month.token,
                             c.year.token>>, c.time)
     IN  IF r = None
           THEN time_pc' = "panicked" /\ UNCHANGED time_out
           ELSE time_pc' = "returned" /\ time_out' = r
  /\ UNCHANGED <<time_case, pushed, popped, test_pc>>
  /\ UNCHANGED <<queue, crawl_vars, canon_vars>>

TimeTest == InitTimeTest /\ [][TestConvertTime]_vars

(***************************************************************************)
(* The snapshots convertjson is run on.                                    *)
(***************************************************************************)
RawCourse(cid_title, ou, urls) ==
  [path |-> <<<<"S1">>, <<"u1">>, cid_title>>, instructors |-> "I1",
   ou |-> ou, appointments |-> <<>>, small_groups |-> urls]

RawCourses ==
  {RawCourse(<<"C1", "T16">>, None, <<>>),
   RawCourse(<<"C1", "T16">>, Some("OU"), <<"u1">>),
   RawCourse(<<"C1", "T17">>, None, <<"u1">>),
   RawCourse(<<"C1", "T1">>, None, <<"u2">>),
   RawCourse(<<"C1">>, None, <<>>)}

RawGroup(url, title, appointments) ==
  [url |-> url, path |-> <<<<"S1">>, <<"u1">>, <<title>>>>,
   appointments |-> appointments]

RawGroups ==
  {RawGroup("u1", GroupLabel \o "G1", <<>>),
   RawGroup("u1", GroupLabel \o "G2", <<RawAppointment>>),
   RawGroup("u2", GroupLabel \o "G1", <<>>)}

SeqsUpTo(S, n) == UNION {[1..k -> S] : k \in 0..n}

StartTime ==
  [year |-> 2023, month |-> 4, day |-> 1, hour |-> 9, minute |-> 5,
   second |-> 0]

InitCanon ==
  /\ InitCrawl
  /\ InitTestOff
  /\ \E cs \in SeqsUpTo(RawCourses, MaxCourses),
        gs \in SeqsUpTo(RawGroups, MaxGroups) :
       snapshot = Some([semester |-> TargetSemester, start_time |-> StartTime,
                        courses |-> cs, small_groups |-> gs])
  /\ canon_pc = "start"
  /\ courses_set = {}
  /\ courses_hashmap = <<>>
  /\ semester_json = None

\* convertjson.rs:42-118: read state.json, index the small groups, convert
\* the courses into the HashSet; a panic ends the process
CanonConvert ==
  /\ canon_pc = "start"
  /\ LET converted == convert_courses(snapshot[1])
     IN  IF converted = None
           THEN /\ canon_pc' = "panicked"
                /\ UNCHANGED courses_set
           ELSE /\ canon_pc' = "group"
                /\ courses_set' = converted[1]
  /\ UNCHANGED <<snapshot, courses_hashmap, semester_json>>
  /\ UNCHANGED <<queue, crawl_vars, test_vars>>

\* convertjson.rs:122-143: the HashSet hands out its next course, any of
\* those left
CanonGroup(course) ==
  /\ canon_pc = "group"
  /\ course \in courses_set
  /\ courses_set' = courses_set \ {course}
  /\ courses_hashmap' = insert_course(courses_hashmap, course)
  /\ UNCHANGED <<snapshot, canon_pc, semester_json>>
  /\ UNCHANGED <<queue, crawl_vars, test_vars>>

\* convertjson.rs:145-166: the HashMap hands out its keys in the order keys,
\* any order; the Semester is written to semester.json
CanonWrite(keys) ==
  /\ canon_pc = "group"
  /\ courses_set = {}
  /\ Len(keys) = Cardinality(DOMAIN courses_hashmap)
  /\ Range(keys) = DOMAIN courses_hashmap
  /\ semester_json' = Some([name |-> snapshot[1].semester,
                            created |-> format_created(snapshot[1].start_time),
                            courses |-> flat_map(courses_hashmap, keys)])
  /\ canon_pc' = "done"
  /\ UNCHANGED <<snapshot, courses_set, courses_hashmap>>
  /\ UNCHANGED <<queue, crawl_vars, test_vars>>

CanonNext ==
  \/ CanonConvert
  \/ \E course \in courses_set : CanonGroup(course)
  \/ \E keys \in SeqsUpTo(DOMAIN courses_hashmap, MaxCourses) : CanonWrite(keys)

Canon == InitCanon /\ [][CanonNext]_vars

\* convertjson run after the scraper has exited: it reads the state.json the
\* scraper wrote (convertjson.rs:42-44)
CanonRead ==
  /\ main_pc = "written"
  /\ canon_pc = "off"
  /\ snapshot' = Some([semester |-> TargetSemester, start_time |-> StartTime,
                       courses |-> state_json.courses[1],
                       small_groups |-> state_json.small_groups[1]])
  /\ canon_pc' = "start"
  /\ UNCHANGED <<courses_set, courses_hashmap, semester_json>>
  /\ UNCHANGED <<queue, crawl_vars, test_vars>>

PipelineNext == Next \/ CanonRead \/ CanonNext

\* the scraper, then convertjson on its output
Pipeline == Init /\ [][PipelineNext]_vars

(***************************************************************************)
(* Properties of the crawl.                                                *)
(***************************************************************************)
TaskSet == BagToSet(tasks)

Halted == sched_pc \in {"finish", "done"}

\* the step of the event loop that leaves RUNNING for HALTED (the break)
HaltStep == sched_pc = "check" /\ sched_pc' = "finish"

\* the entries of kind k among a sequence of entries
OfKind(entries, k) == SelectSeq(entries, LAMBDA e : e.kind = k)

IdleAfterStep == queue'.queue = <<>> /\ running_tasks' = 0

\* every handler dispatched so far has incremented the counter
AllStarted == TaskSet # {} /\ \A t \in TaskSet : t.pc # "start"

\* C1: whenever the event loop leaves RUNNING for HALTED, the work queue is
\* empty and the in-flight counter is zero in the state it halts in, under
\* every interleaving of the halt check (pop returns None, then the read of
\* the counter) with the pushes and decrements of the handlers.
C1_HaltsOnlyWithEmptyQueue ==
  [][(HaltStep /\ AllStarted) => IdleAfterStep]_vars

\* C2: the event loop is never HALTED while the handler of a popped entry is
\* unfinished, a handler that has not started included.
C2_NoHaltWhileHandlerUnfinished ==
  Halted => \A t \in TaskSet : t.pc = "done"

SnapshotBegun == main_pc \in {"snap_small_groups", "written"}

AggregatorAndQueueUnchanged ==
  courses' = courses /\ small_groups' = small_groups /\ queue' = queue

\* C3: once main has started to take the snapshot, no handler appends a
\* record to courses or small_groups and none pushes an entry to the queue.
C3_NothingChangesAfterSnapshot ==
  [][SnapshotBegun => AggregatorAndQueueUnchanged]_vars

\* C4: a handler that has decremented the in-flight counter has completed
\* all its pushes to the queue and the append of its record: nothing of what
\* it extracted is still to be pushed or appended.
C4_DecrementAfterPushesAndAppends ==
  \A t \in TaskSet :
    t.pc = "done" =>
      /\ t.entry.kind # "SmallGroupLeaf" =>
           (t.pushed /\ t.enq = entries_to_push(t))
      /\ t.entry.kind \in {"CourseLeaf", "SmallGroupLeaf"} =>
           (t.appended /\ t.record = None)

\* a CourseLeaf handler that pushed a small-group leaf, appended its course
\* and then decremented the counter
C4_Witness ==
  \E t \in TaskSet :
    /\ t.pc = "done"
    /\ t.entry.kind = "CourseLeaf"
    /\ Len(t.enq) >= 1
    /\ courses # <<>>

\* C10: a Tree handler that has pushed enqueued one Tree entry per branch
\* link and one CourseLeaf entry per course link its extraction returned.
C10_TreeEnqueuesEveryLink ==
  \A t \in TaskSet :
    (t.entry.kind = "Tree" /\ t.pushed) =>
      /\ Len(OfKind(t.enq, "Tree")) = Len(t.branches)
      /\ Len(OfKind(t.enq, "CourseLeaf")) = Len(t.leaves)

\* C11: a handler never leaves its fetch on anything but a 2xx response: no
\* handler is ended by a transport error, and no handler has handed the body
\* of a response of another status to its extractor.
C11_FetchRetriesUntilSuccess ==
  \A t \in TaskSet : t.response \in {None, Some("2xx")}

\* a handler met a structural extraction failure: its page arrived and the
\* extractor panicked on it
ExtractionFailed ==
  \E t \in TaskSet : t.pc = "panicked" /\ t.response = Some("2xx")

\* the event loop hands an entry to a new handler
Dispatch == BagCardinality(tasks') > BagCardinality(tasks)

\* C12: once a handler has met a structural extraction failure the run is
\* aborted and the scheduler stops: the event loop hands no further entry to
\* a handler.
C12_ExtractionFailureAbortsRun ==
  [][ExtractionFailed => ~Dispatch]_vars

\* state.json is written and holds all a crawl gathered whose every
\* dispatched handler ran to completion
CompleteSnapshot ==
  /\ state_json.written
  /\ queue.queue = <<>>
  /\ \A t \in TaskSet : t.pc = "done"
  /\ state_json.courses = Some(courses)
  /\ state_json.small_groups = Some(small_groups)

\* the SmallGroup records of the snapshot with the url
RecordsAt(url) ==
  {i \in DOMAIN state_json.small_groups[1] :
     state_json.small_groups[1][i].url = url}

\* C13: in the snapshot of a crawl whose handlers all ran to completion each
\* small-group url of each raw course is the url of exactly one SmallGroup
\* record of the snapshot.
C13_EveryUrlResolvesToOneRecord ==
  CompleteSnapshot =>
    \A i \in DOMAIN state_json.courses[1] :
      \A j \in DOMAIN state_json.courses[1][i].small_groups :
        Cardinality(RecordsAt(state_json.courses[1][i].small_groups[j])) = 1

\* the Tree entries of the semesters whose label is the target semester
TargetEntries(semesters) ==
  LET matches == SelectSeq(semesters, LAMBDA m : m.label = TargetSemester)
  IN  [i \in DOMAIN matches |->
         QueueEntry("Tree", matches[i].url, <<<<matches[i].label>>>>)]

\* a Main handler that has pushed enqueued the Tree entries of the matching
\* semesters and nothing else, and it appends no record
MainEnqueuesMatches ==
  \A t \in TaskSet :
    t.entry.kind = "Main" =>
      /\ t.pushed => t.enq = TargetEntries(t.semesters)
      /\ ~t.appended

\* a Main handler found no semester of the target label and is past its push
NoMatch ==
  \E t \in TaskSet :
    t.entry.kind = "Main" /\ t.pushed /\ TargetEntries(t.semesters) = <<>>

EmptySnapshot ==
  /\ Halted
  /\ state_json = [courses |-> Some(<<>>), small_groups |-> Some(<<>>),
                   written |-> TRUE]

\* C14: the Main handler enqueues Tree(url, [label]) for exactly the
\* semesters whose label equals the target semester and appends nothing;
\* when no label matches the queue stays empty, and under fair scheduling
\* the event loop halts and main writes a snapshot without any record.
C14_MainFiltersTargetSemester ==
  /\ [](MainEnqueuesMatches /\ (NoMatch => queue.queue = <<>>))
  /\ NoMatch ~> EmptySnapshot

\* a main page without the target semester was handled, nothing was
\* enqueued and the empty snapshot is written
C14_Witness ==
  /\ NoMatch
  /\ EmptySnapshot
  /\ \A t \in TaskSet : t.pc = "done" /\ t.enq = <<>>

\* how many of the links (or entries) carry url
CountUrl(links, url) ==
  Cardinality({i \in DOMAIN links : links[i].url = url})

\* the raw Course records the Aggregator holds for the course leaf at url:
\* the fragment in front of the title is the text of the link to the leaf
CourseRecordsOf(url) ==
  {i \in DOMAIN courses :
     courses[i].path[Len(courses[i].path) - 1] = <<url>>}

RECURSIVE Handlers(_, _)
\* the number of handlers among the set that have appended a Course
Handlers(set, url) ==
  IF set = {} THEN 0
  ELSE LET t == CHOOSE x \in set : TRUE
       IN  (IF t.entry.kind = "CourseLeaf" /\ t.entry.url = url /\ t.appended
              THEN tasks[t] ELSE 0)
           + Handlers(set \ {t}, url)

\* the course-leaf half: a Tree handler that has pushed has enqueued, for
\* every url, as many CourseLeaf entries as its extraction returned course
\* links with that url, and the Aggregator holds one raw Course per
\* CourseLeaf handler of that url that has appended
CourseLeavesNotDeduplicated ==
  \A url \in Range(Urls) :
    /\ \A t \in TaskSet :
         (t.entry.kind = "Tree" /\ t.pushed) =>
           CountUrl(OfKind(t.enq, "CourseLeaf"), url) = CountUrl(t.leaves, url)
    /\ Cardinality(CourseRecordsOf(url)) = Handlers(TaskSet, url)

\* the branch half: a Tree handler that has pushed has enqueued, for every
\* url, as many Tree entries as its extraction returned branch links with it
BranchesNotDeduplicated ==
  \A url \in Range(Urls) :
    \A t \in TaskSet :
      (t.entry.kind = "Tree" /\ t.pushed) =>
        CountUrl(OfKind(t.enq, "Tree"), url) = CountUrl(t.branches, url)

\* C17: nothing is deduplicated by url: a course-leaf or branch url that the
\* extraction of a tree page returned k times is enqueued k times, and the
\* Aggregator holds one raw Course for each handler of a course leaf.
C17_NoDeduplicationByUrl ==
  CourseLeavesNotDeduplicated /\ BranchesNotDeduplicated

\* a handler was ended by a panic and so never completes
AnyPanicked == \E t \in TaskSet : t.pc = "panicked"

\* every entry ever pushed has been popped and its handler has returned
AllHandled ==
  /\ main_pc # "push_main"
  /\ queue.queue = <<>>
  /\ \A t \in TaskSet : t.pc = "done"

\* the event loop halts, unless a handler fails to complete
EventuallyHalts == <>(Halted \/ AnyPanicked)

\* C19: with finitely many links and fair scheduling, when no handler fails
\* to complete the event loop eventually leaves RUNNING for HALTED, and the
\* step by which it does so is taken only when every entry ever pushed has
\* been popped and its handler has returned.
C19_HaltsAfterAllWorkIsDone ==
  /\ EventuallyHalts
  /\ [][(HaltStep /\ ~AnyPanicked) => AllHandled]_vars

\* the Main entry has been pushed, popped and its handler has returned
MainHandled ==
  /\ main_pc # "push_main"
  /\ \E t \in TaskSet : t.entry = EntryMain /\ t.pc = "done"

\* C23: the event loop leaves RUNNING for HALTED only when main has pushed
\* the Main entry and the handler of that entry has returned, however the
\* start of the loop and the push of main interleave.
C23_NoHaltBeforeMainIsHandled ==
  [][HaltStep => MainHandled]_vars

(***************************************************************************)
(* Properties of the Queue.                                                *)
(***************************************************************************)
\* the bag of the elements of a sequence
BagOfSeq(s) == [e \in Range(s) |-> Cardinality({i \in DOMAIN s : s[i] = e})]

\* C5: after N push_back calls followed by N pops, whatever index each pop
\* drew, every pop returned an entry, the popped entries are the pushed ones
\* each as often as it was pushed, and the queue is empty; before that, the
\* entries popped and those still queued are together the pushed ones.
C5_PopsArePermutationOfPushes ==
  (test_pc = "pop" /\ Len(popped) <= Len(pushed)) =>
    /\ \A i \in DOMAIN popped : popped[i] # None
    /\ BagOfSeq([i \in DOMAIN popped |-> popped[i][1]]) (+) BagOfSeq(queue.queue)
         = BagOfSeq(pushed)
    /\ Len(popped) = Len(pushed) => queue.queue = <<>>

\* three pushes with a repeated entry, all popped again, the first pop not
\* at the front
C5_Witness ==
  /\ test_pc = "pop"
  /\ Len(pushed) = 3
  /\ Len(popped) = 3
  /\ pushed[1] = pushed[3]
  /\ pushed[1] # pushed[2]
  /\ popped[1] = Some(pushed[2])

(***************************************************************************)
(* Properties of the canonicalization.                                     *)
(***************************************************************************)
Written == canon_pc = "done" /\ semester_json # None

\* the canonical courses of the document, as a set
WrittenCourses == Range(semester_json[1].courses)

\* the least course of a set in the full-record order
least(set) == CHOOSE c \in set : \A d \in set : CourseCmp(c, d) <= 0

RECURSIVE group_ascending(_, _)
\* the grouping loop run over the set in ascending full-record order
group_ascending(hashmap, set) ==
  IF set = {} THEN hashmap
  ELSE With(least(set), LAMBDA c :
         With(insert_course(hashmap, c), LAMBDA next :
           group_ascending(next, set \ {c})))

\* the courses a run writes that iterates the HashSet in ascending order
ascending_run(state) ==
  With(group_ascending(<<>>, convert_courses(state)[1]), LAMBDA hashmap :
    UNION {Range(hashmap[k]) : k \in DOMAIN hashmap})

\* C6: canonicalization is deterministic: whatever order the HashSet of
\* converted courses and the HashMap of groups were iterated in, the document
\* written holds the same set of canonical courses with the same final ids,
\* namely those of the run that iterates in ascending order, so two runs
\* over the same snapshot agree.
C6_CanonicalizationIsDeterministic ==
  Written => WrittenCourses = ascending_run(snapshot[1])

\* a document with a ranked group of at least two courses and a second group
C6_Witness ==
  /\ Written
  /\ \E c \in WrittenCourses : c.cid = "C1|db:1"
  /\ \E c \in WrittenCourses : c.cid = "C1|6a"

\* code|suffix of a raw course
ProvisionalId(course) ==
  LET cid_title == course.path[Len(course.path)]
  IN  cid_title[1] \o "|" \o Sha256Prefix(cid_title[2] \o course.instructors)

\* the places of the document whose course has the final id
WrittenAt(id) ==
  {i \in DOMAIN semester_json[1].courses : semester_json[1].courses[i].cid = id}

\* the course of the document at place i, with its provisional id p again
Unranked(i, p) == [semester_json[1].courses[i] EXCEPT !.cid = p]

\* the k courses of provisional id p are in the document under p itself when
\* k = 1 and under p:0 .. p:(k-1) when k >= 2, one course per id, the ranks
\* ascending in the full-record order
GroupIsRanked(p, k) ==
  LET n == Len(semester_json[1].courses)
      id(i) == p \o ":" \o ToString(i)
  IN  /\ k = 1 => /\ Cardinality(WrittenAt(p)) = 1
                  /\ \A i \in 0..n : WrittenAt(id(i)) = {}
      /\ k >= 2 => /\ WrittenAt(p) = {}
                   /\ \A i \in 0..(k - 1) : Cardinality(WrittenAt(id(i))) = 1
                   /\ \A i \in k..n : WrittenAt(id(i)) = {}
                   /\ \A i, j \in 0..(k - 1) :
                        i < j => \A a \in WrittenAt(id(i)), b \in WrittenAt(id(j)) :
                                   CourseCmp(Unranked(a, p), Unranked(b, p)) < 0

\* the raw courses of the snapshot with provisional id p
RawWith(p) ==
  {i \in DOMAIN snapshot[1].courses : ProvisionalId(snapshot[1].courses[i]) = p}

\* the distinct converted records of the snapshot with provisional id p
ConvertedWith(p) == {c \in convert_courses(snapshot[1])[1] : c.cid = p}

ProvisionalIds == {ProvisionalId(c) : c \in Range(snapshot[1].courses)}

\* C7 as stated: the k >= 2 raw courses of a snapshot that share a
\* provisional id are written under p:0 .. p:(k-1), one each, in full-record
\* order, and a raw course that shares its provisional id with no other raw
\* course is written under the bare id.
C7_RawCoursesSharingIdAreRanked ==
  Written => \A p \in ProvisionalIds : GroupIsRanked(p, Cardinality(RawWith(p)))

\* C7 amended: the k >= 2 distinct converted records that share a
\* provisional id are written under p:0 .. p:(k-1), one each, in full-record
\* order, and a provisional id that only one distinct converted record
\* carries, from however many raw courses, is written bare.
C7_DistinctRecordsSharingIdAreRanked ==
  Written =>
    \A p \in ProvisionalIds : GroupIsRanked(p, Cardinality(ConvertedWith(p)))

\* three raw courses of one provisional id, two of them the same record: the
\* document holds ranks 0 and 1 only
C7_Witness ==
  /\ Written
  /\ Cardinality(RawWith("C1|db")) = 3
  /\ Cardinality(ConvertedWith("C1|db")) = 2
  /\ WrittenAt("C1|db:1") # {}

\* a raw course references a small-group url no SmallGroup of the snapshot has
HasUnresolved(state) ==
  \E i \in DOMAIN state.courses :
    \E j \in DOMAIN state.courses[i].small_groups :
      \A g \in DOMAIN state.small_groups :
        state.small_groups[g].url # state.courses[i].small_groups[j]

\* C8: when a raw course of the snapshot references a small-group url that no
\* SmallGroup of the snapshot carries, the run never gets past the
\* conversion: it is at its start or has panicked, and no document, partial
\* or whole, is written, wherever the course stands in the snapshot.
C8_UnresolvedUrlIsFatal ==
  HasUnresolved(snapshot[1]) =>
    /\ semester_json = None
    /\ canon_pc \in {"start", "panicked"}

\* the run panicked on a snapshot whose only flaw is an unresolved url in its
\* last course, behind a course that resolves
C8_Witness ==
  /\ canon_pc = "panicked"
  /\ semester_json = None
  /\ Len(snapshot[1].courses) >= 2
  /\ \A i \in DOMAIN snapshot[1].courses :
       Len(snapshot[1].courses[i].path[3]) >= 2
  /\ ~HasUnresolved([snapshot[1] EXCEPT
                       !.courses = SubSeq(@, 1, Len(@) - 1)])
  /\ snapshot[1].courses[1].small_groups # <<>>
  /\ HasUnresolved(snapshot[1])

\* two SmallGroup records of the snapshot carry the same url
HasDuplicateUrl(state) ==
  \E g, h \in DOMAIN state.small_groups :
    g # h /\ state.small_groups[g].url = state.small_groups[h].url

\* C9: when two SmallGroup records of the snapshot carry the same url, the
\* run ends in a panic and writes no document.
C9_DuplicateUrlIsFatal ==
  HasDuplicateUrl(snapshot[1]) =>
    /\ semester_json = None
    /\ canon_pc \in {"start", "panicked"}


\* the conversions of the SmallGroup records of the snapshot that carry url
Conversions(url) ==
  {convert_small_group(snapshot[1].small_groups[i])[1] :
     i \in {k \in DOMAIN snapshot[1].small_groups :
              snapshot[1].small_groups[k].url = url}}

\* the canonical course c embeds, entry by entry and in order, the converted
\* small groups the raw course refers to
Embeds(c, raw) ==
  /\ Len(c.small_groups) = Len(raw.small_groups)
  /\ \A j \in DOMAIN raw.small_groups :
       c.small_groups[j] \in Conversions(raw.small_groups[j])

\* the crawl was one chain: a semester, a tree page, a course leaf and a
\* small-group leaf, each handled to its end
SingleChain ==
  /\ \A t \in TaskSet : t.pc = "done" /\ tasks[t] = 1
  /\ {t.entry.kind : t \in TaskSet} =
       {"Main", "Tree", "CourseLeaf", "SmallGroupLeaf"}
  /\ Cardinality(TaskSet) = 4

\* C15: every course of semester.json embeds, for each entry of the raw
\* course's small_groups and in the same order, the SmallGroup record with
\* that url, its name and appointments converted, and every raw course is
\* embedded so; when the crawl was a single chain semester -> tree -> course
\* leaf -> small-group leaf, semester.json holds exactly one course with
\* exactly one small group.
C15_CoursesEmbedTheirSmallGroups ==
  Written =>
    /\ \A c \in WrittenCourses :
         \E i \in DOMAIN snapshot[1].courses : Embeds(c, snapshot[1].courses[i])
    /\ \A i \in DOMAIN snapshot[1].courses :
         \E c \in WrittenCourses : Embeds(c, snapshot[1].courses[i])
    /\ SingleChain =>
         /\ Len(semester_json[1].courses) = 1
         /\ Len(semester_json[1].courses[1].small_groups) = 1

C15_Witness ==
  /\ Written
  /\ SingleChain
  /\ \E c \in WrittenCourses :
       c.small_groups = <<[name |-> "G1",
                           appointments |->
                             <<[start_time |-> "2023-10-02T08:00:00",
                                end_time |-> "2023-10-02T23:59:00",
                                room |-> "R1", instructors |-> "I1"]>>]>>


\* a course of the snapshot whose last path fragment has fewer than two lines
HasShortTitle(state) ==
  \E i \in DOMAIN state.courses :
    LET path == state.courses[i].path
    IN  path # <<>> /\ Len(path[Len(path)]) < 2

\* C16: when the last path fragment of a raw course has fewer than two lines,
\* convertjson panics: it never gets past the conversion loop and writes no
\* semester.json.
C16_ShortTitleIsFatal ==
  HasShortTitle(snapshot[1]) =>
    /\ canon_pc \in {"start", "panicked"}
    /\ semester_json = None

C16_Witness ==
  /\ HasShortTitle(snapshot[1])
  /\ ~HasUnresolved(snapshot[1])
  /\ Len(snapshot[1].courses) > 1
  /\ canon_pc = "panicked"


(***************************************************************************)
(* Properties of convert_time.                                             *)
(***************************************************************************)
\* C18: called on "<weekday> <day>. <month-abbrev>. <year>" and HH:MM,
\* convert_time returns "<year>-<2-digit month>-<2-digit day>T<time>:00" for
\* each month abbreviation of the table, "Mrz" and "Mär" both giving 03, with
\* "23:59" in the place of the time "24:00"; it does not panic.
C18_ConvertTimeNormalizes ==
  (time_pc \notin {"off", "call"}) =>
    LET c == time_case[1]
    IN  /\ time_pc = "returned"
        /\ time_out =
             Some(c.year.digits \o "-" \o c.month.digits \o "-" \o c.day.digits
                    \o "T" \o (IF c.time = "24:00" THEN "23:59" ELSE c.time)
                    \o ":00")

\* "Mo 02. Okt. 2023" with "24:00" gave "2023-10-02T23:59:00"
C18_Witness ==
  /\ time_pc = "returned"
  /\ time_case[1].weekday = <<"M", "o">>
  /\ time_case[1].day.token = <<"0", "2", ".">>
  /\ time_case[1].month.token = <<"O", "k", "t", ".">>
  /\ time_case[1].year.token = <<"2", "0", "2", "3">>
  /\ time_case[1].time = "24:00"
  /\ time_out = Some("2023-10-02T23:59:00")


(***************************************************************************)
(* Properties of the dispatch.                                             *)
(***************************************************************************)
\* n copies of each element of a bag
Copies(bag, n) == [e \in DOMAIN bag |-> n * bag[e]]

RECURSIVE Dispatched(_)
\* the entries handed to the handlers of the set, one per handler
Dispatched(set) ==
  IF set = {} THEN EmptyBag
  ELSE LET t == CHOOSE x \in set : TRUE
       IN  Copies(SetToBag({t.entry}), tasks[t]) (+) Dispatched(set \ {t})

RECURSIVE PushedBy(_)
\* the entries the handlers of the set have pushed
PushedBy(set) ==
  IF set = {} THEN EmptyBag
  ELSE LET t == CHOOSE x \in set : TRUE
       IN  Copies(BagOfSeq(t.enq), tasks[t]) (+) PushedBy(set \ {t})

\* every entry pushed so far, by main or by a handler
EverPushed ==
  (IF main_pc = "push_main" THEN EmptyBag ELSE SetToBag({EntryMain}))
    (+) PushedBy(TaskSet)

\* a step of the event loop takes at most one entry from the queue, and it
\* spawns a handler exactly when it takes one
OnePerTick ==
  /\ Len(queue'.queue) >= Len(queue.queue) - 1
  /\ BagCardinality(tasks') - BagCardinality(tasks) =
       IF Len(queue'.queue) < Len(queue.queue) THEN 1 ELSE 0

\* C20: the entries pushed so far are those still in the queue together
\* with those handed to a handler, each counted once: no entry has two
\* handlers and none has left the queue without one; and no step takes more
\* than one entry from the queue or spawns more than one handler.
C20_EveryEntryConsumedAtMostOnce ==
  /\ [](BagOfSeq(queue.queue) (+) Dispatched(TaskSet) = EverPushed)
  /\ [][OnePerTick]_vars

\* two entries for the same url were pushed; each has been popped and has a
\* handler of its own
C20_Witness ==
  /\ queue.queue = <<>>
  /\ BagCardinality(tasks) >= 4
  /\ \E e \in DOMAIN EverPushed :
       EverPushed[e] = 2 /\ Dispatched(TaskSet)[e] = 2


(***************************************************************************)
(* Properties of the counters.                                             *)
(***************************************************************************)
\* the pending entries of the leaf category (leaf = TRUE) or the tree one
Pending(leaf) ==
  Cardinality({i \in DOMAIN queue.queue : is_leaf(queue.queue[i]) = leaf})

\* the pop of the event loop found nothing
PopGaveNone == sched_pc = "tick" /\ sched_pc' = "check"

Crawling == sched_pc # "done"

\* some task holds a lock while it waits for another
SomeTaskNestsLocks ==
  \/ main_holds # {} /\ main_awaits # {}
  \/ sched_holds # {} /\ sched_awaits # {}
  \/ \E t \in TaskSet : handler_holds(t.pc) # {} /\ handler_awaits(t) # {}

\* C22: while the crawl is on, the event loop can always take its next step
\* (pop and dispatch, read the counter), whatever the handlers are doing,
\* those suspended in a fetch included, and no task holds one lock while it
\* waits for another; and at any time every handler that has not returned
\* can take its next step or main can, and main can take its next step
\* whenever it waits for a lock: no task is blocked for ever on a lock.
C22_NoLockHeldAcrossFetch ==
  /\ Crawling => ENABLED EventLoopStep
  /\ Crawling => ~SomeTaskNestsLocks
  /\ \A t \in TaskSet :
       (Alive /\ t.pc \notin {"done", "panicked"}) =>
         (ENABLED HandlerStep(t) \/ ENABLED MainStep)
  /\ main_awaits # {} => ENABLED MainStep

\* a handler is suspended in its fetch while the event loop is about to pop
\* a pending entry and another handler is about to lock the queue
C22_Witness ==
  /\ sched_pc = "tick"
  /\ queue.queue # <<>>
  /\ \E t \in TaskSet : t.pc = "fetch"
  /\ \E t \in TaskSet : t.pc = "push"


(***************************************************************************)
(* Properties of the final ids.                                            *)
(***************************************************************************)
\* C24: the final ids of the courses of semester.json are pairwise
\* distinct: no two entries of its courses carry the same cid, be it the
\* bare id of a group of one or a ranked id of a larger group.
C24_FinalIdsAreDistinct ==
  Written =>
    \A i, j \in DOMAIN semester_json[1].courses :
      i # j => semester_json[1].courses[i].cid # semester_json[1].courses[j].cid

\* the document holds a group of one under its bare id next to a group of
\* two under ranked ids
C24_Witness ==
  /\ Written
  /\ {c.cid : c \in WrittenCourses} = {"C1|6a", "C1|db:0", "C1|db:1"}
  /\ Len(semester_json[1].courses) = 3


(***************************************************************************)
(* Properties of the collapse of equal records.                            *)
(***************************************************************************)
\* what a raw course of the snapshot converts to, its provisional id apart:
\* code, title, organizational unit, instructors, resolved small groups and
\* converted appointments
RecordOf(raw) ==
  LET cid_title == raw.path[Len(raw.path)]
      index == index_small_groups(snapshot[1].small_groups,
                                  Len(snapshot[1].small_groups))[1]
  IN  [id |-> ProvisionalId(raw),
       title |-> cid_title[2],
       ou |-> raw.ou,
       instructors |-> raw.instructors,
       small_groups |-> resolve(raw.small_groups, index)[1],
       appointments |-> convert_appointments(raw.appointments)[1]]

\* the distinct records the raw courses of the snapshot convert to
Records == {RecordOf(raw) : raw \in Range(snapshot[1].courses)}

\* the course c of the document is the record r, under its bare or a ranked id
Shows(c, r) ==
  /\ c.cid \in {r.id} \cup {r.id \o ":" \o ToString(k) : k \in 0..MaxCourses}
  /\ c.name = r.title
  /\ c.ou = r.ou
  /\ c.instructors = Some(r.instructors)
  /\ c.small_groups = r.small_groups
  /\ c.appointments = r.appointments

\* C25: semester.json holds exactly one course per distinct converted
\* record: as many courses as the raw courses of the snapshot have distinct
\* records, and each record at exactly one place, so raw courses with the
\* same record are written once.
C25_EqualRecordsCollapse ==
  Written =>
    /\ Len(semester_json[1].courses) = Cardinality(Records)
    /\ \A r \in Records :
         Cardinality({i \in DOMAIN semester_json[1].courses :
                        Shows(semester_json[1].courses[i], r)}) = 1

\* three raw courses, two of them with the same record: the document holds
\* two courses
C25_Witness ==
  /\ Written
  /\ Len(snapshot[1].courses) = 3
  /\ Cardinality(Records) = 2
  /\ Len(semester_json[1].courses) = 2


(***************************************************************************)
(* Properties of the in-flight counter.                                    *)
(***************************************************************************)
\* the number of handlers that are at one of the positions
HandlersAt(pcs) ==
  BagCardinality([t \in {x \in TaskSet : x.pc \in pcs} |-> tasks[t]])

\* the handlers that have executed their increment and not their decrement,
\* those unwound by a panic in between included
InFlight ==
  HandlersAt({"fetch", "push", "append", "dec", "panicked"})

\* the handlers spawned that have not executed their increment
NotStarted == HandlersAt({"start"})

\* the handlers that have returned
Returned == HandlersAt({"done"})

\* C26: running_tasks is the number of handlers that have executed their
\* increment and not yet their decrement, and it is never negative; a step
\* changes it by one at most, up exactly when a handler leaves its start
\* and down exactly when a handler returns, so a handler that runs to its
\* end has incremented once and decremented once.
C26_CounterCountsHandlersInFlight ==
  /\ [](running_tasks = InFlight /\ running_tasks >= 0)
  /\ [][/\ running_tasks' - running_tasks \in {-1, 0, 1}
        /\ running_tasks' = running_tasks + 1 <=> NotStarted' < NotStarted
        /\ running_tasks' = running_tasks - 1 <=> Returned' > Returned]_vars

\* two handlers are in flight, one has returned and one has not started
C26_Witness ==
  /\ running_tasks = 2
  /\ \E t \in TaskSet : t.pc = "done"
  /\ \E t \in TaskSet : t.pc = "start"

=============================================================================
